---- MODULE Spec2Model ----
(***************************************************************************)
(* LLM comparator: the entry point (main), the response collector         *)
(* (gather_provider_responses) and the anonymized judge                    *)
(* (judge_responses_with_openai) of src/main.py, with the question         *)
(* generator, the chat-completion helper, the provider adapters and the    *)
(* value records they use.  Text is modelled as sequences of one-character *)
(* strings so that strip(), int() and json.loads() are computed, not       *)
(* assumed.                                                                *)
(***************************************************************************)
EXTENDS Integers, Sequences, FiniteSets, TLC

VARIABLES
    pc,                   \* control position of the running coroutine
    providers,            \* registry: dict key -> LLMProvider, in insertion order
    timeout,              \* the shared per-call timeout (absent or a number)
    idx,                  \* position of the collector's for loop (1-based)
    responses,            \* dict name -> Optional[Response], in insertion order
    calls,                \* backend calls started so far (collector: registry positions)
    results,              \* how each of them ended for its caller
    inflight,             \* backend calls whose worker thread is still running
    out,                  \* lines printed so far
    raised,               \* the exception that escaped the coroutine, or "none"
    question,             \* the Question of this run
    api_key,              \* judge credential
    model,                \* judge model identifier
    numbered_to_provider, \* judge: competitor number -> provider key
    messages,             \* judge: the message list sent to the helper
    asked,                \* judge: number of helper.ask calls issued
    raw,                  \* judge: what helper.ask returned
    order,                \* judge: the parsed `results` list
    rank,                 \* judge: position of the re-map loop (1-based)
    return_raw,           \* helper/adapter call: the return_raw argument
    backend,              \* helper/adapter call: how the awaited backend call ended
    env,                  \* main: the process environment after load_dotenv()
    generated,            \* main: what each generate_question call returned or raised
    other,                \* a second judge invocation, run side by side
    built                 \* value records: the constructor calls made so far

vars == <<pc, providers, timeout, idx, responses, calls, results, inflight, out,
          raised, question, api_key, model, numbered_to_provider, messages,
          asked, raw, order, rank, return_raw, backend, env, generated, other, built>>

gatherVars == <<providers, timeout, idx, calls, results, inflight>>
judgeVars == <<api_key, model, numbered_to_provider, messages, asked, raw, order, rank>>
auxVars == <<return_raw, backend, env, generated, other, built>>

-----------------------------------------------------------------------------
(* Bounds of the model *)

MaxProviders == 3
MaxOrder == 3
MaxBuilt == 2

-----------------------------------------------------------------------------
(* Python values *)

None == [some |-> FALSE, v |-> <<>>]
NoTimeout == [some |-> FALSE, v |-> 0]
Some(x) == [some |-> TRUE, v |-> x]

Ok(x) == [exc |-> "none", v |-> x]
Raise(e) == [exc |-> e, v |-> <<>>]

\* Python's exception hierarchy, as far as the handlers of src/ tell classes apart.
Parents(e) ==
    CASE e = "JSONDecodeError" -> {"JSONDecodeError", "ValueError", "Exception"}
      [] e = "ValueError" -> {"ValueError", "Exception"}
      [] e = "AttributeError" -> {"AttributeError", "Exception"}
      [] e = "RuntimeError" -> {"RuntimeError", "Exception"}
      [] e = "TimeoutError" -> {"TimeoutError", "Exception"}
      [] e = "SDKError" -> {"SDKError", "Exception"}
      [] OTHER -> {e}

Catches(handler, e) == handler \in Parents(e)

Whitespace == {" ", "\n"}

RECURSIVE LStrip(_)
LStrip(s) ==
    IF s # <<>> /\ Head(s) \in Whitespace THEN LStrip(Tail(s)) ELSE s

RECURSIVE RStrip(_)
RStrip(s) ==
    IF s # <<>> /\ s[Len(s)] \in Whitespace THEN RStrip(SubSeq(s, 1, Len(s) - 1)) ELSE s

Strip(s) == RStrip(LStrip(s))

UpperOf(c) ==
    CASE c = "a" -> "A" [] c = "g" -> "G" [] c = "o" -> "O" [] OTHER -> c

\* str.title() on the lower-case one-word names of this model
Title(s) == IF s = <<>> THEN s ELSE <<UpperOf(Head(s))>> \o Tail(s)

RECURSIVE JoinWith(_, _)
JoinWith(parts, sep) ==
    IF parts = <<>> THEN <<>>
    ELSE IF Len(parts) = 1 THEN parts[1]
    ELSE parts[1] \o sep \o JoinWith(Tail(parts), sep)

openai == <<"o", "p", "e", "n", "a", "i">>
anthropic == <<"a", "n", "t", "h", "r", "o", "p", "i", "c">>
groq == <<"g", "r", "o", "q">>
gemini == <<"g", "e", "m", "i", "n", "i">>
ollama == <<"o", "l", "l", "a", "m", "a">>

ProviderNames == {openai, anthropic, groq, gemini}

-----------------------------------------------------------------------------
(* Value records *)

\* Question.__post_init__
NewQuestion(text, id) ==
    IF Strip(text) = <<>> THEN Raise("ValueError")
    ELSE Ok([text |-> text, id |-> id])

\* NewResponse testing the texts for emptiness without trimming them
NewResponseUntrimmed(provider, q, answer) ==
    IF provider = <<>> THEN Raise("ValueError")
    ELSE IF answer = <<>> THEN Raise("ValueError")
    ELSE Ok([provider |-> provider, question |-> q, answer |-> answer])

\* Response.__post_init__
NewResponse(provider, q, answer) ==
    IF Strip(provider) = <<>> THEN Raise("ValueError")
    ELSE IF Strip(answer) = <<>> THEN Raise("ValueError")
    ELSE Ok([provider |-> provider, question |-> q, answer |-> answer])

\* LLMProvider.__post_init__
NewProvider(name, mdl) ==
    IF Strip(name) = <<>> THEN Raise("ValueError")
    ELSE IF Strip(mdl) = <<>> THEN Raise("ValueError")
    ELSE Ok([name |-> name, model |-> mdl])

\* main passes timeout=30 to the collector and timeout=30.0 to the judge
CollectTimeout == 30
JudgeTimeout == 30

TheQuestion == [text |-> <<"Q", "?">>, id |-> 1]
ProviderModel == <<"m">>

-----------------------------------------------------------------------------
(* Insertion-ordered dict: a sequence of [key, val] with distinct keys *)

DictKeys(d) == {d[i].key : i \in 1..Len(d)}

DictHas(d, k) == \E i \in 1..Len(d) : d[i].key = k

DictGet(d, k) == d[CHOOSE i \in 1..Len(d) : d[i].key = k].val

\* d[k] = v: a new key goes last, an existing key keeps its position
DictSet(d, k, v) ==
    IF DictHas(d, k)
    THEN [i \in 1..Len(d) |-> IF d[i].key = k THEN [key |-> k, val |-> v] ELSE d[i]]
    ELSE Append(d, [key |-> k, val |-> v])

-----------------------------------------------------------------------------
(* Chat-completion helper *)

\* What the awaited backend call of OpenAIClientHelper.ask can end with.
Contents == {<<" ", "A", "\n">>, <<" ">>, <<>>}

Completions ==
    {[kind |-> "completion", shape |-> s, content |-> <<>>] :
        s \in {"no_choices", "no_message", "no_content"}}
    \cup {[kind |-> "completion", shape |-> "content", content |-> c] : c \in Contents}

NotCalled == [kind |-> "not_called", shape |-> "", content |-> <<>>]
SdkError == [kind |-> "sdk_error", shape |-> "", content |-> <<>>]
TimedOut == [kind |-> "timeout", shape |-> "", content |-> <<>>]

\* AskCheck looking at the message list only
AskCheckMessagesOnly(msgs, mdl) ==
    IF Len(msgs) = 0 THEN "ValueError" ELSE "none"

\* lines 49-54: the argument checks of OpenAIClientHelper.ask, made before the
\* backend call is set up; "none" when they pass
AskCheck(msgs, mdl) ==
    IF Strip(mdl) = <<>> THEN "ValueError"
    ELSE IF Len(msgs) = 0 THEN "ValueError"
    ELSE "none"

\* AskAwait without the handler of line 67
AskAwaitNoTimeoutHandler(raw_mode, waited) ==
    IF waited.kind = "timeout" THEN Raise("TimeoutError")
    ELSE IF waited.kind = "sdk_error" THEN Ok(None)
    ELSE IF raw_mode THEN Ok(Some(waited))
    ELSE IF waited.shape \in {"no_choices", "no_message", "no_content"} THEN Ok(None)
    ELSE IF waited.content = <<>> THEN Ok(None)
    ELSE Ok(Some(Strip(waited.content)))

\* lines 59-86: `waited` is how the awaited backend call ended
AskAwait(raw_mode, waited) ==
    IF waited.kind = "timeout" THEN Ok(None)
    ELSE IF waited.kind = "sdk_error" THEN Ok(None)
    ELSE IF raw_mode THEN Ok(Some(waited))
    ELSE IF waited.shape \in {"no_choices", "no_message", "no_content"} THEN Ok(None)
    ELSE IF waited.content = <<>> THEN Ok(None)
    ELSE Ok(Some(Strip(waited.content)))

\* OpenAIClientHelper.ask
HelperAsk(msgs, mdl, raw_mode, waited) ==
    IF AskCheck(msgs, mdl) # "none" THEN Raise(AskCheck(msgs, mdl))
    ELSE AskAwait(raw_mode, waited)

\* OpenAIClientHelper.ask, text mode
Ask(msgs, mdl, waited) == HelperAsk(msgs, mdl, FALSE, waited)

\* OpenAIProvider.generate_answer (GroqProvider and OllamaProvider are the same code)
GenerateAnswer(p, q, raw_mode, waited) ==
    LET result == HelperAsk(<<[role |-> "user", content |-> q.text]>>, p.model,
                            raw_mode, waited)
    IN  IF result.exc # "none" THEN Raise(result.exc)
        ELSE IF ~result.v.some THEN Raise("RuntimeError")
        ELSE IF raw_mode
        THEN IF result.v.v.shape \in {"no_choices", "no_message"} THEN Raise("RuntimeError")
             ELSE IF result.v.v.shape = "no_content" \/ result.v.v.content = <<>>
             THEN Raise("RuntimeError")
             ELSE NewResponse(p.name, q, Strip(result.v.v.content))
        ELSE NewResponse(p.name, q, result.v.v)

\* What the awaited messages.create of AnthropicProvider can end with: a
\* message whose content is a list of blocks, a text block carrying its text
AnthropicBlocks ==
    {[text |-> Some(c)] : c \in {<<"A">>, <<" ">>, <<>>}} \cup {[text |-> None]}

AnthropicMessages ==
    {[kind |-> "message", shape |-> "none", content |-> <<>>],
     [kind |-> "message", shape |-> "no_content", content |-> <<>>]}
    \cup {[kind |-> "message", shape |-> "blocks", content |-> c] :
             c \in {<<>>} \cup {<<x>> : x \in AnthropicBlocks}
                   \cup {<<x, y>> : x, y \in AnthropicBlocks}}

\* str(resp): the printed form of the SDK's message object
AnthropicStr(resp) ==
    <<"M", "e", "s", "s", "a", "g", "e", "(">>
        \o JoinWith([i \in 1..Len(resp.content) |->
                        IF resp.content[i].text.some THEN resp.content[i].text.v
                        ELSE <<"-">>], <<",">>)
        \o <<")">>

\* lines 102-105: the texts of the blocks that carry a non-empty text
AnthropicParts(content) ==
    LET textual == SelectSeq(content, LAMBDA blk : blk.text.some /\ blk.text.v # <<>>) IN
    [i \in 1..Len(textual) |-> textual[i].text.v]

\* AnthropicProvider.generate_answer
AnthropicGenerateAnswer(p, q, raw_mode, waited) ==
    IF waited.kind = "timeout" THEN Raise("TimeoutError")
    ELSE IF waited.kind = "sdk_error" THEN Raise("SDKError")
    ELSE IF waited.shape = "none" THEN Raise("RuntimeError")
    ELSE IF raw_mode THEN NewResponse(p.name, q, AnthropicStr(waited))
    ELSE IF waited.shape = "no_content" \/ waited.content = <<>> THEN Raise("RuntimeError")
    ELSE IF AnthropicParts(waited.content) = <<>> THEN Raise("RuntimeError")
    ELSE NewResponse(p.name, q, Strip(JoinWith(AnthropicParts(waited.content), <<"\n">>)))

\* GeminiProvider.generate_answer, by the provider contract: a Response with
\* the backend's non-empty text, or a provider error
GeminiGenerateAnswer(p, q, waited) ==
    IF waited.kind \in {"timeout", "sdk_error"} THEN Raise("RuntimeError")
    ELSE IF waited.shape # "content" \/ Strip(waited.content) = <<>> THEN Raise("RuntimeError")
    ELSE NewResponse(p.name, q, Strip(waited.content))

\* what the backend call of provider p can end with, short of a timeout
BackendOutcomes(p) ==
    IF p.kind = "anthropic" THEN AnthropicMessages \cup {SdkError}
    ELSE Completions \cup {SdkError}

\* provider.generate_answer(question, timeout=, return_raw=), by the class of p
ProviderAnswer(p, q, raw_mode, waited) ==
    CASE p.kind = "anthropic" -> AnthropicGenerateAnswer(p, q, raw_mode, waited)
      [] p.kind = "gemini" -> GeminiGenerateAnswer(p, q, waited)
      [] OTHER -> GenerateAnswer(p, q, raw_mode, waited)

-----------------------------------------------------------------------------
(* Response collector: gather_provider_responses *)

\* main registers every provider under its own name (lines 199-205); the
\* collector accepts any registry, so a provider may also carry another name
NameChoices(k) == {k, openai}

\* registries: up to n distinct keys, in insertion order
RECURSIVE Registries(_)
Registries(n) ==
    IF n = 0 THEN {<<>>}
    ELSE LET shorter == Registries(n - 1) IN
         shorter \cup
         {Append(t[1], [key |-> t[2], name |-> t[3], model |-> ProviderModel,
                        kind |-> "openai"]) :
             t \in {u \in shorter \X ProviderNames \X ProviderNames :
                       /\ Len(u[1]) = n - 1
                       /\ ~DictHas(u[1], u[2])
                       /\ u[3] \in NameChoices(u[2])
                       /\ NewProvider(u[3], ProviderModel).exc = "none"}}

Line(kind, r, name, num, text) ==
    [kind |-> kind, rank |-> r, name |-> name, num |-> num, text |-> text]

\* lines 57-60
PrintResponse(name, answer) == Line("response", 0, Title(name), 0, answer)
\* line 62
PrintError(name, exc) == Line("error", 0, name, 0, <<>>)

\* line 53: the loop takes the next provider; line 55: generate_answer starts
\* its backend call on a worker thread and the collector awaits it
GatherCall ==
    /\ pc = "gather_loop"
    /\ idx <= Len(providers)
    /\ calls' = Append(calls, idx)
    /\ inflight' = inflight \cup {idx}
    /\ pc' = "gather_await"
    /\ UNCHANGED <<providers, timeout, idx, responses, results, out, raised, question>>
    /\ UNCHANGED judgeVars
    /\ UNCHANGED auxVars

\* GatherRecord with a handler that gives up the loop at the first failure
GatherRecordStopOnError(res) ==
    LET p == providers[idx] IN
    /\ results' = Append(results, res)
    /\ raised' = raised
    /\ IF res.exc = "none"
       THEN /\ responses' = DictSet(responses, p.name, Some(res.v))
            /\ out' = Append(out, PrintResponse(p.name, res.v.answer))
            /\ pc' = "gather_loop"
            /\ idx' = idx + 1
       ELSE /\ responses' = DictSet(responses, p.name, None)
            /\ out' = Append(out, PrintError(p.name, res.exc))
            /\ pc' = "gather_returned"
            /\ idx' = idx

\* lines 55-63 once generate_answer has returned or raised `res`
GatherRecord(res) ==
    LET p == providers[idx] IN
    /\ results' = Append(results, res)
    /\ IF res.exc = "none"
       THEN /\ responses' = DictSet(responses, p.name, Some(res.v))
            /\ out' = Append(out, PrintResponse(p.name, res.v.answer))
            /\ raised' = raised
            /\ pc' = "gather_loop"
            /\ idx' = idx + 1
       ELSE IF Catches("Exception", res.exc)
       THEN /\ responses' = DictSet(responses, p.name, None)
            /\ out' = Append(out, PrintError(p.name, res.exc))
            /\ raised' = raised
            /\ pc' = "gather_loop"
            /\ idx' = idx + 1
       ELSE /\ raised' = res.exc
            /\ pc' = "gather_raised"
            /\ UNCHANGED <<responses, out, idx>>

\* the worker thread of the awaited call ends: a completion or an SDK error
GatherReturn ==
    /\ pc = "gather_await"
    /\ \E waited \in BackendOutcomes(providers[idx]) :
          GatherRecord(ProviderAnswer(providers[idx], question, FALSE, waited))
    /\ inflight' = inflight \ {idx}
    /\ UNCHANGED <<providers, timeout, calls, question>>
    /\ UNCHANGED judgeVars
    /\ UNCHANGED auxVars

\* asyncio.wait_for expires first: the await is abandoned, the worker thread
\* started by asyncio.to_thread is not stopped
GatherTimeout ==
    /\ pc = "gather_await"
    /\ timeout.some
    /\ GatherRecord(ProviderAnswer(providers[idx], question, FALSE, TimedOut))
    /\ UNCHANGED <<providers, timeout, calls, inflight, question>>
    /\ UNCHANGED judgeVars
    /\ UNCHANGED auxVars

\* an abandoned worker thread ends on its own; nobody reads its result
AbandonedEnd ==
    /\ \E i \in inflight :
          /\ ~(pc = "gather_await" /\ i = idx)
          /\ inflight' = inflight \ {i}
    /\ UNCHANGED <<pc, providers, timeout, idx, responses, calls, results, out,
                   raised, question>>
    /\ UNCHANGED judgeVars
    /\ UNCHANGED auxVars

\* line 64
GatherDone ==
    /\ pc = "gather_loop"
    /\ idx > Len(providers)
    /\ pc' = "gather_returned"
    /\ UNCHANGED <<providers, timeout, idx, responses, calls, results, inflight,
                   out, raised, question>>
    /\ UNCHANGED judgeVars
    /\ UNCHANGED auxVars

-----------------------------------------------------------------------------
(* JSON text and Python conversions used by the judge *)

Q == "\""
Digits == {"0", "1", "2", "3", "4", "5", "6", "7", "8", "9"}

DigitVal(c) ==
    CASE c = "0" -> 0 [] c = "1" -> 1 [] c = "2" -> 2 [] c = "3" -> 3 [] c = "4" -> 4
      [] c = "5" -> 5 [] c = "6" -> 6 [] c = "7" -> 7 [] c = "8" -> 8 [] c = "9" -> 9

DigitChar(d) ==
    CASE d = 0 -> "0" [] d = 1 -> "1" [] d = 2 -> "2" [] d = 3 -> "3" [] d = 4 -> "4"
      [] d = 5 -> "5" [] d = 6 -> "6" [] d = 7 -> "7" [] d = 8 -> "8" [] d = 9 -> "9"

\* the values json.loads produces
JV(t, s, n, items) == [t |-> t, s |-> s, n |-> n, items |-> items]
JStr(s) == JV("str", s, 0, <<>>)
JInt(n) == JV("int", <<>>, n, <<>>)
JFloat(text) == JV("float", text, 0, <<>>)
JTrue == JV("true", <<>>, 0, <<>>)
JFalse == JV("false", <<>>, 0, <<>>)
JNull == JV("null", <<>>, 0, <<>>)
JList(items) == JV("list", <<>>, 0, items)
JDict(members) == JV("dict", <<>>, 0, members)

RECURSIVE NatChars(_)
NatChars(n) ==
    IF n < 10 THEN <<DigitChar(n)>> ELSE NatChars(n \div 10) \o <<DigitChar(n % 10)>>

IntChars(n) == IF n < 0 THEN <<"-">> \o NatChars(-n) ELSE NatChars(n)

RECURSIVE DigitsValue(_, _)
DigitsValue(ds, acc) ==
    IF ds = <<>> THEN acc ELSE DigitsValue(Tail(ds), 10 * acc + DigitVal(Head(ds)))

ParseFail == [ok |-> FALSE, v |-> <<>>, i |-> 0]
Parsed(v, i) == [ok |-> TRUE, v |-> v, i |-> i]

\* the character at position i, or "" past the end
At(s, i) == IF i >= 1 /\ i <= Len(s) THEN s[i] ELSE ""

HasLiteral(s, i, lit) ==
    i + Len(lit) - 1 <= Len(s) /\ SubSeq(s, i, i + Len(lit) - 1) = lit

RECURSIVE SkipWs(_, _)
SkipWs(s, i) == IF At(s, i) \in Whitespace THEN SkipWs(s, i + 1) ELSE i

RECURSIVE ScanDigits(_, _)
ScanDigits(s, i) == IF At(s, i) \in Digits THEN ScanDigits(s, i + 1) ELSE i

\* position of the closing quote of a string whose body starts at i, or 0
RECURSIVE ScanString(_, _)
ScanString(s, i) ==
    IF i > Len(s) THEN 0 ELSE IF s[i] = Q THEN i ELSE ScanString(s, i + 1)

\* json's number pattern -?(0|[1-9][0-9]*)(\.[0-9]+)? (exponents are not modelled)
ParseNumber(s, i) ==
    LET neg == At(s, i) = "-"
        j == IF neg THEN i + 1 ELSE i
        k == IF At(s, j) = "0" THEN j + 1 ELSE ScanDigits(s, j)
        f == ScanDigits(s, k + 1)
    IN  IF k = j THEN ParseFail
        ELSE IF At(s, k) = "." /\ f > k + 1 THEN Parsed(JFloat(SubSeq(s, i, f - 1)), f)
        ELSE Parsed(JInt((IF neg THEN -1 ELSE 1) * DigitsValue(SubSeq(s, j, k - 1), 0)), k)

RECURSIVE ParseValue(_, _), ParseElements(_, _, _), ParseMembers(_, _, _)

\* one JSON value starting at position i (white space already skipped)
ParseValue(s, i) ==
    LET c == At(s, i) IN
    CASE c = Q ->
            LET j == ScanString(s, i + 1) IN
            IF j = 0 THEN ParseFail ELSE Parsed(JStr(SubSeq(s, i + 1, j - 1)), j + 1)
      [] c = "[" ->
            LET j == SkipWs(s, i + 1) IN
            IF At(s, j) = "]" THEN Parsed(JList(<<>>), j + 1) ELSE ParseElements(s, j, <<>>)
      [] c = "{" ->
            LET j == SkipWs(s, i + 1) IN
            IF At(s, j) = "}" THEN Parsed(JDict(<<>>), j + 1) ELSE ParseMembers(s, j, <<>>)
      [] c = "n" ->
            IF HasLiteral(s, i, <<"n", "u", "l", "l">>) THEN Parsed(JNull, i + 4) ELSE ParseFail
      [] c = "t" ->
            IF HasLiteral(s, i, <<"t", "r", "u", "e">>) THEN Parsed(JTrue, i + 4) ELSE ParseFail
      [] c = "f" ->
            IF HasLiteral(s, i, <<"f", "a", "l", "s", "e">>) THEN Parsed(JFalse, i + 5)
            ELSE ParseFail
      [] c \in Digits \cup {"-"} -> ParseNumber(s, i)
      [] OTHER -> ParseFail

ParseElements(s, i, acc) ==
    LET r == ParseValue(s, i) IN
    IF ~r.ok THEN ParseFail
    ELSE LET j == SkipWs(s, r.i)
             acc2 == Append(acc, r.v)
         IN  IF At(s, j) = "," THEN ParseElements(s, SkipWs(s, j + 1), acc2)
             ELSE IF At(s, j) = "]" THEN Parsed(JList(acc2), j + 1)
             ELSE ParseFail

\* a repeated key keeps its first position and takes the last value, as a dict does
ParseMembers(s, i, acc) ==
    IF At(s, i) # Q THEN ParseFail
    ELSE LET k == ScanString(s, i + 1) IN
         IF k = 0 THEN ParseFail
         ELSE LET c == SkipWs(s, k + 1) IN
              IF At(s, c) # ":" THEN ParseFail
              ELSE LET r == ParseValue(s, SkipWs(s, c + 1)) IN
                   IF ~r.ok THEN ParseFail
                   ELSE LET j == SkipWs(s, r.i)
                            acc2 == DictSet(acc, SubSeq(s, i + 1, k - 1), r.v)
                        IN  IF At(s, j) = "," THEN ParseMembers(s, SkipWs(s, j + 1), acc2)
                            ELSE IF At(s, j) = "}" THEN Parsed(JDict(acc2), j + 1)
                            ELSE ParseFail

\* json.loads: one value, white space around it, nothing after it
JsonLoads(text) ==
    LET r == ParseValue(text, SkipWs(text, 1)) IN
    IF r.ok /\ SkipWs(text, r.i) > Len(text) THEN Ok(r.v) ELSE Raise("JSONDecodeError")

\* data.get(key): only a dict has .get; a missing key gives None
DataGet(data, key) ==
    IF data.t # "dict" THEN Raise("AttributeError")
    ELSE IF DictHas(data.items, key) THEN Ok(DictGet(data.items, key))
    ELSE Ok(JNull)

\* json.dumps with its default separators
RECURSIVE JsonDumps(_)
JsonDumps(v) ==
    CASE v.t = "str" -> <<Q>> \o v.s \o <<Q>>
      [] v.t = "int" -> IntChars(v.n)
      [] v.t = "float" -> v.s
      [] v.t = "true" -> <<"t", "r", "u", "e">>
      [] v.t = "false" -> <<"f", "a", "l", "s", "e">>
      [] v.t = "null" -> <<"n", "u", "l", "l">>
      [] v.t = "list" ->
            <<"[">> \o JoinWith([i \in 1..Len(v.items) |-> JsonDumps(v.items[i])], <<",", " ">>)
                    \o <<"]">>
      [] v.t = "dict" ->
            <<"{">> \o JoinWith([i \in 1..Len(v.items) |->
                                    <<Q>> \o v.items[i].key \o <<Q, ":", " ">>
                                          \o JsonDumps(v.items[i].val)], <<",", " ">>)
                    \o <<"}">>

\* repr() of a value json.loads produced (a float keeps the text of its literal)
RECURSIVE PyRepr(_)
PyRepr(v) ==
    CASE v.t = "str" -> <<"'">> \o v.s \o <<"'">>
      [] v.t = "int" -> IntChars(v.n)
      [] v.t = "float" -> v.s
      [] v.t = "true" -> <<"T", "r", "u", "e">>
      [] v.t = "false" -> <<"F", "a", "l", "s", "e">>
      [] v.t = "null" -> <<"N", "o", "n", "e">>
      [] v.t = "list" ->
            <<"[">> \o JoinWith([i \in 1..Len(v.items) |-> PyRepr(v.items[i])], <<",", " ">>)
                    \o <<"]">>
      [] v.t = "dict" ->
            <<"{">> \o JoinWith([i \in 1..Len(v.items) |->
                                    <<"'">> \o v.items[i].key \o <<"'", ":", " ">>
                                            \o PyRepr(v.items[i].val)], <<",", " ">>)
                    \o <<"}">>

\* str(item)
PyStr(v) == IF v.t = "str" THEN v.s ELSE PyRepr(v)

\* int(text): white space around, one optional sign, digits with single
\* underscores between them
PyInt(text) ==
    LET t == Strip(text)
        signed == t # <<>> /\ Head(t) \in {"+", "-"}
        body == IF signed THEN Tail(t) ELSE t
        wellFormed ==
            /\ body # <<>>
            /\ \A i \in 1..Len(body) : body[i] \in Digits \cup {"_"}
            /\ body[1] \in Digits
            /\ body[Len(body)] \in Digits
            /\ \A i \in 1..(Len(body) - 1) : ~(body[i] = "_" /\ body[i + 1] = "_")
        digits == SelectSeq(body, LAMBDA c : c \in Digits)
        magnitude == DigitsValue(digits, 0)
    IN  IF ~wellFormed THEN Raise("ValueError")
        ELSE Ok(IF signed /\ Head(t) = "-" THEN -magnitude ELSE magnitude)

-----------------------------------------------------------------------------
(* Anonymized judge: judge_responses_with_openai *)

ResultsKey == <<"r", "e", "s", "u", "l", "t", "s">>

\* line 83
FailedProviders(resp) ==
    LET failed == SelectSeq(resp, LAMBDA e : ~e.val.some) IN
    [i \in 1..Len(failed) |-> failed[i].key]

\* lines 89-93
Competitors(resp) == SelectSeq(resp, LAMBDA e : e.val.some)

\* lines 100-103: enumerate(competitors, start=1)
RECURSIVE NumberFrom(_, _, _)
NumberFrom(comps, start, acc) ==
    IF comps = <<>> THEN acc
    ELSE NumberFrom(Tail(comps), start + 1, DictSet(acc, start, Head(comps).key))

\* NumberCompetitors with enumerate's default start
NumberCompetitorsFromZero(comps) == NumberFrom(comps, 0, <<>>)

NumberCompetitors(comps) == NumberFrom(comps, 1, <<>>)

\* lines 104-107
CompetitorPart(i, answer) ==
    <<"C", "o", "m", "p", "e", "t", "i", "t", "o", "r", " ">> \o IntChars(i)
        \o <<":", "\n">> \o answer \o <<"\n">>

\* Together labelling each answer with the provider's key
TogetherNamed(comps) ==
    Strip(JoinWith([i \in 1..Len(comps) |->
                       comps[i].key \o <<":", "\n">> \o comps[i].val.v.answer \o <<"\n">>],
                   <<"\n">>))

Together(comps) ==
    Strip(JoinWith([i \in 1..Len(comps) |-> CompetitorPart(i, comps[i].val.v.answer)],
                   <<"\n">>))

\* lines 111-123: the literal parts of the prompt are kept as whole strings
JudgePrompt(comps, q) ==
    <<"You are judging a competition between ", IntChars(Len(comps)),
      " competitors. Each model has been given this question: ", q.text,
      " ... Here are the responses from each competitor: ", Together(comps),
      " Now respond with the JSON with the ranked order of the competitors, nothing else.">>

\* lines 126-129
JudgeMessages(comps, q) ==
    <<[role |-> "system", content |-> <<"You are an impartial judge of answer quality.">>],
      [role |-> "user", content |-> JudgePrompt(comps, q)]>>

\* OpenAIClientHelper.__init__
NewHelper(key) == IF Strip(key) = <<>> THEN Raise("ValueError") ELSE Ok(key)

\* ParseOrder without the isinstance check of line 140
ParseOrderAnyShape(text) ==
    LET data == JsonLoads(text) IN
    IF data.exc # "none" THEN Raise(data.exc)
    ELSE LET got == DataGet(data.v, ResultsKey) IN
         IF got.exc # "none" THEN Raise(got.exc)
         ELSE Ok(got.v.items)

\* lines 138-141, the body of the try
ParseOrder(text) ==
    LET data == JsonLoads(text) IN
    IF data.exc # "none" THEN Raise(data.exc)
    ELSE LET got == DataGet(data.v, ResultsKey) IN
         IF got.exc # "none" THEN Raise(got.exc)
         ELSE IF got.v.t # "list" THEN Raise("ValueError")
         ELSE Ok(got.v.items)

\* ParseHandler narrowed to the errors json.loads raises
ParseHandlerValueError == "ValueError"

\* line 142
ParseHandler == "Exception"

\* RankLine looking the provider up by the rank instead of the parsed number
RankLineByRank(r, item, numbered) ==
    LET num == PyInt(PyStr(item)) IN
    IF num.exc # "none" /\ Catches("ValueError", num.exc)
    THEN Line("invalid", r, <<>>, 0, PyRepr(item))
    ELSE IF ~DictHas(numbered, num.v)
    THEN Line("unknown", r, <<>>, num.v, <<>>)
    ELSE Line("rank", r, DictGet(numbered, r), num.v, <<>>)

\* RankLine reading a number above N as the last competitor
RankLineClamped(r, item, numbered) ==
    LET num == PyInt(PyStr(item)) IN
    IF num.exc # "none" /\ Catches("ValueError", num.exc)
    THEN Line("invalid", r, <<>>, 0, PyRepr(item))
    ELSE IF num.v < 1
    THEN Line("unknown", r, <<>>, num.v, <<>>)
    ELSE IF ~DictHas(numbered, num.v)
    THEN Line("rank", r, DictGet(numbered, Len(numbered)), num.v, <<>>)
    ELSE Line("rank", r, DictGet(numbered, num.v), num.v, <<>>)

\* lines 149-158: what one entry of the ranking prints
RankLine(r, item, numbered) ==
    LET num == PyInt(PyStr(item)) IN
    IF num.exc # "none" /\ Catches("ValueError", num.exc)
    THEN Line("invalid", r, <<>>, 0, PyRepr(item))
    ELSE LET provider_name ==
                 IF DictHas(numbered, num.v) THEN Some(DictGet(numbered, num.v)) ELSE None
         IN  IF ~provider_name.some \/ provider_name.v = <<>>
             THEN Line("unknown", r, <<>>, num.v, <<>>)
             ELSE Line("rank", r, provider_name.v, num.v, <<>>)

\* MinCompetitors lowered by one
MinCompetitorsOffByOne == 2 - 1

\* line 95
MinCompetitors == 2

\* lines 83-97: report the skipped providers, stop with fewer than 2 competitors
JudgeFilter ==
    /\ pc = "judge_start"
    /\ LET failed == FailedProviders(responses)
           skipped == IF failed = <<>> THEN <<>>
                      ELSE <<Line("skipped_header", 0, <<>>, 0, <<>>)>> \o
                           [i \in 1..Len(failed) |-> Line("skipped", 0, failed[i], 0, <<>>)]
       IN  IF Len(Competitors(responses)) < MinCompetitors
           THEN /\ out' = out \o skipped \o <<Line("not_enough", 0, <<>>, 0, <<>>)>>
                /\ pc' = "judge_returned"
           ELSE /\ out' = out \o skipped
                /\ pc' = "judge_anonymize"
    /\ UNCHANGED <<responses, raised, question>>
    /\ UNCHANGED gatherVars
    /\ UNCHANGED auxVars
    /\ UNCHANGED judgeVars

\* lines 100-129: number the competitors, build the prompt, construct the helper
JudgeAnonymize ==
    /\ pc = "judge_anonymize"
    /\ numbered_to_provider' = NumberCompetitors(Competitors(responses))
    /\ IF NewHelper(api_key).exc # "none"
       THEN /\ raised' = NewHelper(api_key).exc
            /\ pc' = "judge_raised"
            /\ UNCHANGED messages
       ELSE /\ messages' = JudgeMessages(Competitors(responses), question)
            /\ pc' = "judge_ask"
            /\ UNCHANGED raised
    /\ UNCHANGED <<responses, out, question>>
    /\ UNCHANGED gatherVars
    /\ UNCHANGED auxVars
    /\ UNCHANGED <<api_key, model, asked, raw, order, rank>>

\* what the judge backend can answer
RECURSIVE OrderLists(_)
OrderLists(n) ==
    IF n = 0 THEN {<<>>}
    ELSE LET shorter == OrderLists(n - 1) IN
         shorter \cup
         {Append(t[1], t[2]) :
             t \in {u \in shorter \X {JStr(<<"1">>), JStr(<<"2">>), JStr(<<"x">>)} :
                       Len(u[1]) = n - 1}}

OtherLists ==
    { <<JStr(<<"2">>), JStr(<<"1">>), JStr(<<"3">>)>>,
      <<JStr(<<"3">>), JStr(<<"1">>)>>,
      <<JStr(<<"0">>), JStr(<<"2">>)>>,
      <<JStr(<<"x">>), JStr(<<"0">>), JStr(<<"2">>)>>,
      <<JStr(<<"-", "1">>), JStr(<<"4">>), JStr(<<"1">>)>>,
      <<JStr(<<" ", "2", " ">>), JStr(<<"+", "1">>)>>,
      <<JStr(<<"0", "2">>), JStr(<<"1", "_", "0">>), JStr(<<>>)>>,
      <<JInt(2), JInt(1)>>,
      <<JFloat(<<"2", ".", "0">>), JStr(<<"1">>)>>,
      <<JNull, JTrue, JStr(<<"2">>)>>,
      <<JList(<<JStr(<<"1">>)>>), JDict(<<>>), JStr(<<"1">>)>> }

ResultsObject(items) == JDict(<<[key |-> ResultsKey, val |-> JList(items)]>>)

JudgeContents ==
    {JsonDumps(ResultsObject(items)) : items \in OrderLists(MaxOrder) \cup OtherLists}
    \cup
    { <<>>,
      <<" ", "\n">>,
      <<"n", "o">>,
      <<"J", "S", "O", "N", ":">> \o JsonDumps(ResultsObject(<<JStr(<<"1">>), JStr(<<"2">>)>>)),
      JsonDumps(ResultsObject(<<JStr(<<"2">>), JStr(<<"1">>)>>)) \o <<" ", "o", "k">>,
      <<"{", Q, "r", "e", "s", "u", "l", "t", "s", Q, ":", "[", Q, "1", Q>>,
      JsonDumps(JList(<<JStr(<<"2">>), JStr(<<"1">>)>>)),
      JsonDumps(JStr(<<"2", ",", "1">>)),
      JsonDumps(JInt(21)),
      JsonDumps(JNull),
      JsonDumps(JDict(<<>>)),
      JsonDumps(JDict(<<[key |-> <<"r", "a", "n", "k">>, val |-> JList(<<JStr(<<"1">>)>>)]>>)),
      JsonDumps(JDict(<<[key |-> ResultsKey, val |-> JStr(<<"2", ",", "1">>)]>>)),
      JsonDumps(JDict(<<[key |-> ResultsKey, val |-> JNull]>>)),
      JsonDumps(JDict(<<[key |-> ResultsKey, val |-> ResultsObject(<<JStr(<<"1">>)>>)]>>)) }

JudgeCompletions ==
    {[kind |-> "completion", shape |-> s, content |-> <<>>] :
        s \in {"no_choices", "no_message", "no_content"}}
    \cup {[kind |-> "completion", shape |-> "content", content |-> c] : c \in JudgeContents}

\* lines 131-132: helper.ask(messages, model=model, timeout=timeout)
JudgeAsk ==
    /\ pc = "judge_ask"
    /\ asked' = asked + 1
    /\ \E waited \in JudgeCompletions \cup {SdkError}
                     \cup (IF timeout.some THEN {TimedOut} ELSE {}) :
          LET res == Ask(messages, model, waited) IN
          IF res.exc # "none"
          THEN /\ raised' = res.exc
               /\ pc' = "judge_raised"
               /\ UNCHANGED raw
          ELSE /\ raw' = res.v
               /\ pc' = "judge_parse"
               /\ UNCHANGED raised
    /\ out' = Append(out, Line("asking", 0, <<>>, 0, <<>>))
    /\ UNCHANGED <<responses, question>>
    /\ UNCHANGED gatherVars
    /\ UNCHANGED auxVars
    /\ UNCHANGED <<api_key, model, numbered_to_provider, messages, order, rank>>

\* lines 133-147
JudgeParse ==
    /\ pc = "judge_parse"
    /\ IF ~raw.some \/ raw.v = <<>>
       THEN /\ out' = Append(out, Line("no_response", 0, <<>>, 0, <<>>))
            /\ pc' = "judge_returned"
            /\ UNCHANGED <<raised, order, rank>>
       ELSE LET parsed == ParseOrder(raw.v) IN
            IF parsed.exc = "none"
            THEN /\ order' = parsed.v
                 /\ rank' = 1
                 /\ out' = Append(out, Line("ranking_header", 0, <<>>, 0, <<>>))
                 /\ pc' = "judge_rank"
                 /\ UNCHANGED raised
            ELSE IF Catches(ParseHandler, parsed.exc)
            THEN /\ out' = out \o <<Line("parse_failed", 0, <<>>, 0, <<>>),
                                    Line("raw_output", 0, <<>>, 0, raw.v)>>
                 /\ pc' = "judge_returned"
                 /\ UNCHANGED <<raised, order, rank>>
            ELSE /\ raised' = parsed.exc
                 /\ pc' = "judge_raised"
                 /\ UNCHANGED <<out, order, rank>>
    /\ UNCHANGED <<responses, question>>
    /\ UNCHANGED gatherVars
    /\ UNCHANGED auxVars
    /\ UNCHANGED <<api_key, model, numbered_to_provider, messages, asked, raw>>

\* JudgeRank with `break` in place of the two `continue`s
JudgeRankStopAtSkipped ==
    /\ pc = "judge_rank"
    /\ rank <= Len(order)
    /\ out' = Append(out, RankLine(rank, order[rank], numbered_to_provider))
    /\ rank' = rank + 1
    /\ pc' = IF RankLine(rank, order[rank], numbered_to_provider).kind = "rank"
             THEN pc ELSE "judge_returned"
    /\ UNCHANGED <<responses, raised, question>>
    /\ UNCHANGED gatherVars
    /\ UNCHANGED auxVars
    /\ UNCHANGED <<api_key, model, numbered_to_provider, messages, asked, raw, order>>

\* JudgeRank numbering the rank lines by themselves: a skipped entry takes no
\* rank number
JudgeRankCountingValid ==
    /\ pc = "judge_rank"
    /\ rank <= Len(order)
    /\ LET printed == Cardinality({i \in 1..Len(out) : out[i].kind = "rank"})
       IN  out' = Append(out, RankLine(printed + 1, order[rank], numbered_to_provider))
    /\ rank' = rank + 1
    /\ UNCHANGED <<pc, responses, raised, question>>
    /\ UNCHANGED gatherVars
    /\ UNCHANGED auxVars
    /\ UNCHANGED <<api_key, model, numbered_to_provider, messages, asked, raw, order>>

\* lines 148-158: one iteration of the re-map loop
JudgeRank ==
    /\ pc = "judge_rank"
    /\ rank <= Len(order)
    /\ out' = Append(out, RankLine(rank, order[rank], numbered_to_provider))
    /\ rank' = rank + 1
    /\ UNCHANGED <<pc, responses, raised, question>>
    /\ UNCHANGED gatherVars
    /\ UNCHANGED auxVars
    /\ UNCHANGED <<api_key, model, numbered_to_provider, messages, asked, raw, order>>

\* the loop of line 148 is exhausted
JudgeDone ==
    /\ pc = "judge_rank"
    /\ rank > Len(order)
    /\ pc' = "judge_returned"
    /\ UNCHANGED <<responses, out, raised, question>>
    /\ UNCHANGED gatherVars
    /\ UNCHANGED auxVars
    /\ UNCHANGED judgeVars

\* collected responses: up to n distinct provider keys, each with a Response
\* of that provider or with None
Answers == {<<"A">>}

RECURSIVE Collected(_)
Collected(n) ==
    IF n = 0 THEN {<<>>}
    ELSE LET shorter == Collected(n - 1) IN
         shorter \cup
         {Append(t[1], [key |-> t[2],
                        val |-> IF t[3] = <<>> THEN None
                                ELSE Some(NewResponse(t[2], TheQuestion, t[3][1]).v)]) :
             t \in {u \in shorter \X ProviderNames \X ({<<>>} \cup {<<a>> : a \in Answers}) :
                       /\ Len(u[1]) = n - 1
                       /\ ~DictHas(u[1], u[2])}}

-----------------------------------------------------------------------------
(* Two judge invocations side by side *)

PairNames == {openai, groq, gemini}
PairAnswers == {<<"A">>, <<"B">>}
PairQuestions == {TheQuestion, [text |-> TheQuestion.text, id |-> 2]}

\* collected responses as Collected(n), over PairNames and PairAnswers
RECURSIVE PairCollected(_)
PairCollected(n) ==
    IF n = 0 THEN {<<>>}
    ELSE LET shorter == PairCollected(n - 1) IN
         shorter \cup
         {Append(t[1], [key |-> t[2],
                        val |-> IF t[3] = <<>> THEN None
                                ELSE Some(NewResponse(t[2], TheQuestion, t[3][1]).v)]) :
             t \in {u \in shorter \X PairNames \X ({<<>>} \cup {<<a>> : a \in PairAnswers}) :
                       /\ Len(u[1]) = n - 1
                       /\ ~DictHas(u[1], u[2])}}

\* lines 89-132: the message list the judge hands to helper.ask, <<>> when it
\* stops at line 95 without asking
JudgeSends(resp, q) ==
    IF Len(Competitors(resp)) < MinCompetitors THEN <<>>
    ELSE JudgeMessages(Competitors(resp), q)

\* the first invocation, on `responses` and `question`
PairFirst ==
    /\ pc = "pair_start"
    /\ messages' = JudgeSends(responses, question)
    /\ pc' = "pair_first_sent"
    /\ UNCHANGED <<responses, out, raised, question>>
    /\ UNCHANGED gatherVars
    /\ UNCHANGED <<api_key, model, numbered_to_provider, asked, raw, order, rank>>
    /\ UNCHANGED auxVars

\* the second invocation, on any other collected responses
PairSecond ==
    /\ pc = "pair_first_sent"
    /\ \E r2 \in PairCollected(MaxProviders), q2 \in PairQuestions :
          other' = [responses |-> r2, question |-> q2, messages |-> JudgeSends(r2, q2)]
    /\ pc' = "pair_done"
    /\ UNCHANGED <<responses, out, raised, question>>
    /\ UNCHANGED gatherVars
    /\ UNCHANGED judgeVars
    /\ UNCHANGED <<return_raw, backend, env, generated, built>>

-----------------------------------------------------------------------------
(* One call of OpenAIClientHelper.ask *)

HelperMessageLists ==
    { <<>>,
      <<[role |-> "user", content |-> TheQuestion.text]>>,
      <<[role |-> "system", content |-> <<"S">>],
        [role |-> "user", content |-> TheQuestion.text]>> }

HelperModels == {<<"g">>, <<" ", "g", " ">>, <<" ">>, <<>>}

\* lines 49-57: the checks, then the backend call is handed to a worker thread
HelperCall ==
    /\ pc = "ask_start"
    /\ IF AskCheck(messages, model) # "none"
       THEN /\ raised' = HelperAsk(messages, model, return_raw, TimedOut).exc
            /\ pc' = "ask_raised"
            /\ UNCHANGED <<calls, inflight>>
       ELSE /\ calls' = Append(calls, 1)
            /\ inflight' = inflight \cup {1}
            /\ pc' = "ask_await"
            /\ UNCHANGED raised
    /\ UNCHANGED <<providers, timeout, idx, responses, results, out, question>>
    /\ UNCHANGED judgeVars
    /\ UNCHANGED auxVars

\* lines 59-86 once the await has ended with `waited`
HelperFinish(waited) ==
    LET res == HelperAsk(messages, model, return_raw, waited) IN
    /\ backend' = waited
    /\ IF res.exc # "none"
       THEN /\ raised' = res.exc
            /\ pc' = "ask_raised"
            /\ UNCHANGED raw
       ELSE /\ raw' = res.v
            /\ pc' = "ask_returned"
            /\ UNCHANGED raised

\* the worker thread ends: a completion or an SDK error
HelperBackendEnds ==
    /\ pc = "ask_await"
    /\ \E waited \in Completions \cup {SdkError} : HelperFinish(waited)
    /\ inflight' = inflight \ {1}
    /\ UNCHANGED <<providers, timeout, idx, responses, calls, results, out, question>>
    /\ UNCHANGED <<api_key, model, numbered_to_provider, messages, asked, order, rank>>
    /\ UNCHANGED <<return_raw, env, generated, other, built>>

\* asyncio.wait_for expires first; the worker thread is not stopped
HelperTimeout ==
    /\ pc = "ask_await"
    /\ timeout.some
    /\ HelperFinish(TimedOut)
    /\ UNCHANGED <<providers, timeout, idx, responses, calls, results, inflight, out,
                   question>>
    /\ UNCHANGED <<api_key, model, numbered_to_provider, messages, asked, order, rank>>
    /\ UNCHANGED <<return_raw, env, generated, other, built>>

\* the abandoned worker thread ends on its own
HelperAbandonedEnd ==
    /\ pc \in {"ask_returned", "ask_raised", "adapter_returned", "adapter_raised"}
    /\ inflight # {}
    /\ inflight' = {}
    /\ UNCHANGED <<pc, providers, timeout, idx, responses, calls, results, out,
                   raised, question>>
    /\ UNCHANGED judgeVars
    /\ UNCHANGED auxVars

-----------------------------------------------------------------------------
(* One call of a provider adapter's generate_answer *)

Adapter(name, kind) ==
    <<[key |-> name, name |-> name, model |-> ProviderModel, kind |-> kind]>>

\* OpenAIProvider, GroqProvider, OllamaProvider, AnthropicProvider
Adapters ==
    {Adapter(openai, "openai"), Adapter(groq, "groq"), Adapter(ollama, "ollama"),
     Adapter(anthropic, "anthropic")}

\* the adapter hands its backend call to a worker thread and awaits it
AdapterCall ==
    /\ pc = "adapter_start"
    /\ calls' = Append(calls, idx)
    /\ inflight' = inflight \cup {idx}
    /\ pc' = "adapter_await"
    /\ UNCHANGED <<providers, timeout, idx, responses, results, out, raised, question>>
    /\ UNCHANGED judgeVars
    /\ UNCHANGED auxVars

\* generate_answer returns or raises once the await has ended with `waited`
AdapterFinish(waited) ==
    LET res == ProviderAnswer(providers[idx], question, return_raw, waited) IN
    /\ backend' = waited
    /\ results' = Append(results, res)
    /\ raised' = res.exc
    /\ pc' = IF res.exc = "none" THEN "adapter_returned" ELSE "adapter_raised"

\* the worker thread ends: a backend response or an SDK error
AdapterBackendEnds ==
    /\ pc = "adapter_await"
    /\ \E waited \in BackendOutcomes(providers[idx]) : AdapterFinish(waited)
    /\ inflight' = inflight \ {idx}
    /\ UNCHANGED <<providers, timeout, idx, responses, calls, out, question>>
    /\ UNCHANGED judgeVars
    /\ UNCHANGED <<return_raw, env, generated, other, built>>

\* asyncio.wait_for expires first; the worker thread is not stopped
AdapterTimeout ==
    /\ pc = "adapter_await"
    /\ timeout.some
    /\ AdapterFinish(TimedOut)
    /\ UNCHANGED <<providers, timeout, idx, responses, calls, inflight, out, question>>
    /\ UNCHANGED judgeVars
    /\ UNCHANGED <<return_raw, env, generated, other, built>>

-----------------------------------------------------------------------------
(* Constructing the value records *)

Texts == {<<>>, <<" ">>, <<"A">>, <<" ", "A", "\n">>}

NoQuestion == [text |-> <<>>, id |-> 0]

Built(what, a, b, q, res) == [what |-> what, a |-> a, b |-> b, q |-> q, res |-> res]

\* the Questions constructed so far
BuiltQuestions ==
    {built[i].res.v : i \in {j \in 1..Len(built) :
                                built[j].what = "Question" /\ built[j].res.exc = "none"}}

\* Question.create(text)
BuildQuestion ==
    /\ Len(built) < MaxBuilt
    /\ \E text \in Texts :
          built' = Append(built, Built("Question", text, <<>>, NoQuestion,
                                       NewQuestion(text, Len(built) + 1)))
    /\ UNCHANGED <<pc, responses, out, raised, question>>
    /\ UNCHANGED gatherVars
    /\ UNCHANGED judgeVars
    /\ UNCHANGED <<return_raw, backend, env, generated, other>>

\* Response.create(provider, question, answer) for a Question made before
BuildResponse ==
    /\ Len(built) < MaxBuilt
    /\ \E provider \in Texts, answer \in Texts, q \in BuiltQuestions :
          built' = Append(built, Built("Response", provider, answer, q,
                                       NewResponse(provider, q, answer)))
    /\ UNCHANGED <<pc, responses, out, raised, question>>
    /\ UNCHANGED gatherVars
    /\ UNCHANGED judgeVars
    /\ UNCHANGED <<return_raw, backend, env, generated, other>>

\* a concrete LLMProvider(name=, model=)
BuildProvider ==
    /\ Len(built) < MaxBuilt
    /\ \E name \in Texts, mdl \in Texts :
          built' = Append(built, Built("Provider", name, mdl, NoQuestion,
                                       NewProvider(name, mdl)))
    /\ UNCHANGED <<pc, responses, out, raised, question>>
    /\ UNCHANGED gatherVars
    /\ UNCHANGED judgeVars
    /\ UNCHANGED <<return_raw, backend, env, generated, other>>

-----------------------------------------------------------------------------
(* Entry point: main *)

\* lines 167-176, in the order they are read
RequiredEnv == <<"OPENAI_API_KEY", "GROQ_API_KEY", "GOOGLE_API_KEY", "ANTHROPIC_API_KEY">>

\* a variable is unset, empty or set; a whitespace-only value is told apart
\* only where a key reaches OpenAIClientHelper.__init__
EnvChoices(name) ==
    {None, Some(<<>>), Some(<<"k">>)}
    \cup (IF name \in {"OPENAI_API_KEY", "GROQ_API_KEY"} THEN {Some(<<" ">>)} ELSE {})

Environments ==
    {e \in [{RequiredEnv[i] : i \in 1..Len(RequiredEnv)} ->
               {None, Some(<<>>), Some(<<"k">>), Some(<<" ">>)}] :
        \A i \in 1..Len(RequiredEnv) : e[RequiredEnv[i]] \in EnvChoices(RequiredEnv[i])}

\* get_env_var returning whatever it finds
GetEnvVarUnchecked(e, name) == Ok(e[name].v)

\* lines 39-43
GetEnvVar(e, name) ==
    IF ~e[name].some \/ e[name].v = <<>> THEN Raise("ValueError")
    ELSE Ok(e[name].v)

\* line 168
OpenAIModel == <<"g", "p", "t", "-", "4">>

\* QuestionGenerator.generate_question, lines 67-79
GenerateQuestion(mdl, waited) ==
    LET response == HelperAsk(<<[role |-> "system", content |-> <<"S">>],
                                [role |-> "user", content |-> <<"P">>]>>,
                              mdl, FALSE, waited)
    IN  IF response.exc # "none" THEN Raise(response.exc)
        ELSE IF ~response.v.some \/ response.v.v = <<>> THEN Raise("RuntimeError")
        ELSE NewQuestion(Strip(response.v.v), 1)

\* lines 199-205: the registry, or the error of the first constructor to fail
MainRegistry(e) ==
    IF NewHelper(GetEnvVar(e, "OPENAI_API_KEY").v).exc # "none" THEN Raise("ValueError")
    ELSE IF NewHelper(GetEnvVar(e, "GROQ_API_KEY").v).exc # "none" THEN Raise("ValueError")
    ELSE Ok(Adapter(openai, "openai") \o Adapter(groq, "groq") \o Adapter(gemini, "gemini")
               \o Adapter(anthropic, "anthropic") \o Adapter(ollama, "ollama"))

\* line 208
ShortAnswerSuffix ==
    <<"\n", "\n", "P", "l", "e", "a", "s", "e", " ", "a", "n", "s", "w", "e",
      "r", " ", "i", "n", " ", "n", "o", " ", "m", "o", "r", "e", " ", "t",
      "h", "a", "n", " ", "t", "h", "r", "e", "e", " ", "s", "e", "n", "t",
      "e", "n", "c", "e", "s", ".">>

\* lines 207-211
ShortAnswer(q) == NewQuestion(q.text \o ShortAnswerSuffix, q.id)

\* lines 163-179: the four credentials are read before the try
MainStart ==
    /\ pc = "main_start"
    /\ out' = Append(out, Line("starting", 0, <<>>, 0, <<>>))
    /\ IF \E i \in 1..Len(RequiredEnv) : GetEnvVar(env, RequiredEnv[i]).exc # "none"
       THEN /\ raised' = "ValueError"
            /\ pc' = "main_raised"
            /\ UNCHANGED <<api_key, model>>
       ELSE /\ api_key' = GetEnvVar(env, "OPENAI_API_KEY").v
            /\ model' = OpenAIModel
            /\ pc' = "main_try"
            /\ UNCHANGED raised
    /\ UNCHANGED <<responses, question>>
    /\ UNCHANGED gatherVars
    /\ UNCHANGED <<numbered_to_provider, messages, asked, raw, order, rank>>
    /\ UNCHANGED auxVars

\* lines 183-196: build the generator and await generate_question()
MainGenerate ==
    /\ pc = "main_try"
    /\ IF NewHelper(api_key).exc # "none"
       THEN /\ raised' = NewHelper(api_key).exc
            /\ pc' = "main_except"
            /\ UNCHANGED <<generated, backend, inflight, question, out>>
       ELSE \E waited \in Completions \cup {SdkError, TimedOut} :
               LET res == GenerateQuestion(model, waited) IN
               /\ generated' = Append(generated, res)
               /\ backend' = waited
               /\ inflight' = IF waited.kind = "timeout" THEN inflight \cup {0} ELSE inflight
               /\ IF res.exc # "none"
                  THEN /\ raised' = res.exc
                       /\ pc' = "main_except"
                       /\ out' = Append(out, Line("generating", 0, <<>>, 0, <<>>))
                       /\ UNCHANGED question
                  ELSE /\ question' = res.v
                       /\ pc' = "main_providers"
                       /\ out' = out \o <<Line("generating", 0, <<>>, 0, <<>>),
                                          Line("question", 0, <<>>, 0, res.v.text)>>
                       /\ UNCHANGED raised
    /\ UNCHANGED <<providers, timeout, idx, calls, results, responses>>
    /\ UNCHANGED judgeVars
    /\ UNCHANGED <<return_raw, env, other, built>>

\* lines 199-214: build the registry and the short-answer question, call the
\* collector with timeout=30
MainProviders ==
    /\ pc = "main_providers"
    /\ IF MainRegistry(env).exc # "none"
       THEN /\ raised' = MainRegistry(env).exc
            /\ pc' = "main_except"
            /\ UNCHANGED <<providers, timeout, idx, question, out>>
       ELSE /\ providers' = MainRegistry(env).v
            /\ question' = ShortAnswer(question).v
            /\ timeout' = Some(CollectTimeout)
            /\ idx' = 1
            /\ out' = Append(out, Line("collecting", 0, <<>>, 0, <<>>))
            /\ pc' = "gather_loop"
            /\ UNCHANGED raised
    /\ UNCHANGED <<responses, calls, results, inflight>>
    /\ UNCHANGED judgeVars
    /\ UNCHANGED auxVars

\* lines 216-222: the collector has returned, the judge is called with
\* timeout=30.0
MainJudge ==
    /\ pc = "gather_returned"
    /\ timeout' = Some(JudgeTimeout)
    /\ idx' = 0
    /\ calls' = <<>>
    /\ results' = <<>>
    /\ pc' = "judge_start"
    /\ UNCHANGED <<providers, inflight, responses, out, raised, question>>
    /\ UNCHANGED judgeVars
    /\ UNCHANGED auxVars

\* the judge has returned: main returns
MainReturn ==
    /\ pc = "judge_returned"
    /\ pc' = "main_returned"
    /\ UNCHANGED <<responses, out, raised, question>>
    /\ UNCHANGED gatherVars
    /\ UNCHANGED judgeVars
    /\ UNCHANGED auxVars

\* lines 223-225: whatever was raised inside the try is printed and re-raised
MainExcept ==
    /\ pc \in {"main_except", "gather_raised", "judge_raised"}
    /\ Catches("Exception", raised)
    /\ out' = Append(out, Line("main_error", 0, <<>>, 0, <<>>))
    /\ pc' = "main_raised"
    /\ UNCHANGED <<responses, raised, question>>
    /\ UNCHANGED gatherVars
    /\ UNCHANGED judgeVars
    /\ UNCHANGED auxVars

-----------------------------------------------------------------------------
(* Specifications *)

GatherIdle ==
    /\ providers = <<>>
    /\ idx = 0
    /\ calls = <<>>
    /\ results = <<>>
    /\ inflight = {}

JudgeIdle ==
    /\ api_key = <<>>
    /\ model = <<>>
    /\ numbered_to_provider = <<>>
    /\ messages = <<>>
    /\ asked = 0
    /\ raw = None
    /\ order = <<>>
    /\ rank = 0

AuxIdle ==
    /\ return_raw = FALSE
    /\ backend = NotCalled
    /\ env = <<>>
    /\ generated = <<>>
    /\ other = <<>>
    /\ built = <<>>

InitGather ==
    /\ pc = "gather_loop"
    /\ providers \in Registries(MaxProviders)
    /\ timeout \in {NoTimeout, Some(CollectTimeout)}
    /\ idx = 1
    /\ responses = <<>>
    /\ calls = <<>>
    /\ results = <<>>
    /\ inflight = {}
    /\ out = <<>>
    /\ raised = "none"
    /\ question = TheQuestion
    /\ JudgeIdle
    /\ AuxIdle

NextGather ==
    \/ GatherCall
    \/ GatherReturn
    \/ GatherTimeout
    \/ AbandonedEnd
    \/ GatherDone

SpecGather == InitGather /\ [][NextGather]_vars

\* a call judge_responses_with_openai(question=, responses=, api_key=, model=)
InitJudge ==
    /\ pc = "judge_start"
    /\ responses \in Collected(MaxProviders)
    /\ question = TheQuestion
    /\ api_key \in {<<"k">>, <<" ">>}
    /\ model \in {<<"g">>, <<>>}
    /\ timeout = Some(JudgeTimeout)
    /\ out = <<>>
    /\ raised = "none"
    /\ numbered_to_provider = <<>>
    /\ messages = <<>>
    /\ asked = 0
    /\ raw = None
    /\ order = <<>>
    /\ rank = 0
    /\ GatherIdle
    /\ AuxIdle

NextJudge ==
    \/ JudgeFilter
    \/ JudgeAnonymize
    \/ JudgeAsk
    \/ JudgeParse
    \/ JudgeRank
    \/ JudgeDone

SpecJudge == InitJudge /\ [][NextJudge]_vars

\* two calls of judge_responses_with_openai, the first on any collected responses
InitPair ==
    /\ pc = "pair_start"
    /\ responses \in PairCollected(MaxProviders)
    /\ question = TheQuestion
    /\ timeout = Some(JudgeTimeout)
    /\ out = <<>>
    /\ raised = "none"
    /\ JudgeIdle
    /\ GatherIdle
    /\ AuxIdle

NextPair ==
    \/ PairFirst
    \/ PairSecond

SpecPair == InitPair /\ [][NextPair]_vars

\* a call helper.ask(messages, model=, timeout=, return_raw=)
InitHelper ==
    /\ pc = "ask_start"
    /\ messages \in HelperMessageLists
    /\ model \in HelperModels
    /\ return_raw \in BOOLEAN
    /\ timeout \in {NoTimeout, Some(JudgeTimeout)}
    /\ api_key = <<"k">>
    /\ responses = <<>>
    /\ out = <<>>
    /\ raised = "none"
    /\ question = TheQuestion
    /\ numbered_to_provider = <<>>
    /\ asked = 0
    /\ raw = None
    /\ order = <<>>
    /\ rank = 0
    /\ GatherIdle
    /\ backend = NotCalled
    /\ env = <<>>
    /\ generated = <<>>
    /\ other = <<>>
    /\ built = <<>>

NextHelper ==
    \/ HelperCall
    \/ HelperBackendEnds
    \/ HelperTimeout
    \/ HelperAbandonedEnd

SpecHelper == InitHelper /\ [][NextHelper]_vars

\* a call adapter.generate_answer(question, timeout=, return_raw=)
InitAdapter ==
    /\ pc = "adapter_start"
    /\ providers \in Adapters
    /\ idx = 1
    /\ return_raw \in BOOLEAN
    /\ timeout \in {NoTimeout, Some(CollectTimeout)}
    /\ question = TheQuestion
    /\ calls = <<>>
    /\ results = <<>>
    /\ inflight = {}
    /\ responses = <<>>
    /\ out = <<>>
    /\ raised = "none"
    /\ JudgeIdle
    /\ backend = NotCalled
    /\ env = <<>>
    /\ generated = <<>>
    /\ other = <<>>
    /\ built = <<>>

NextAdapter ==
    \/ AdapterCall
    \/ AdapterBackendEnds
    \/ AdapterTimeout
    \/ HelperAbandonedEnd

SpecAdapter == InitAdapter /\ [][NextAdapter]_vars

\* constructor calls, in any order
InitRecords ==
    /\ pc = "records"
    /\ responses = <<>>
    /\ timeout = NoTimeout
    /\ out = <<>>
    /\ raised = "none"
    /\ question = TheQuestion
    /\ GatherIdle
    /\ JudgeIdle
    /\ AuxIdle

NextRecords ==
    \/ BuildQuestion
    \/ BuildResponse
    \/ BuildProvider

SpecRecords == InitRecords /\ [][NextRecords]_vars

\* asyncio.run(main()) in any environment
Init ==
    /\ pc = "main_start"
    /\ env \in Environments
    /\ responses = <<>>
    /\ timeout = NoTimeout
    /\ out = <<>>
    /\ raised = "none"
    /\ question = NoQuestion
    /\ GatherIdle
    /\ JudgeIdle
    /\ return_raw = FALSE
    /\ backend = NotCalled
    /\ generated = <<>>
    /\ other = <<>>
    /\ built = <<>>

Next ==
    \/ MainStart
    \/ MainGenerate
    \/ MainProviders
    \/ GatherCall
    \/ GatherReturn
    \/ GatherTimeout
    \/ AbandonedEnd
    \/ GatherDone
    \/ MainJudge
    \/ JudgeFilter
    \/ JudgeAnonymize
    \/ JudgeAsk
    \/ JudgeParse
    \/ JudgeRank
    \/ JudgeDone
    \/ MainReturn
    \/ MainExcept

Spec == Init /\ [][Next]_vars

-----------------------------------------------------------------------------
(* Properties of the response collector *)

\* C1: the mapping gather_provider_responses returns has exactly one entry per
\* registered provider key: its key set is the registry's key set and its size
\* is the number of registered providers, also when a provider's name differs
\* from its registry key or two registered providers share a name.
C1_OneEntryPerRegistryKey ==
    pc = "gather_returned" =>
        /\ DictKeys(responses) = DictKeys(providers)
        /\ Len(responses) = Len(providers)

\* C2: in the returned mapping a provider whose generate_answer call raised
\* maps to an absent value, a provider whose call succeeded maps to the
\* Response that call returned, whose provider field is that provider's name,
\* and no error of a provider call leaves the collector.  (The entry of a
\* provider is looked up under its name, the key the collector writes.)
C2_FailedAbsentSucceededPresent ==
    /\ raised = "none"
    /\ pc = "gather_returned" =>
          \A i \in 1..Len(providers) :
             /\ DictHas(responses, providers[i].name)
             /\ LET entry == DictGet(responses, providers[i].name) IN
                IF results[i].exc = "none"
                THEN /\ entry.some
                     /\ entry.v = results[i].v
                     /\ entry.v.provider = providers[i].name
                ELSE ~entry.some

\* C3: generate_answer is invoked exactly once per registered provider, in
\* registry order, a failure never prevents the invocations after it, and the
\* trace has one success or failure line per invocation in that same order.
C3_EachProviderCalledOnceInOrder ==
    /\ calls = [i \in 1..Len(calls) |-> i]
    /\ Len(calls) <= Len(providers)
    /\ pc # "gather_raised"
    /\ pc = "gather_returned" => Len(calls) = Len(providers)
    /\ Len(results) = (IF pc = "gather_await" THEN Len(calls) - 1 ELSE Len(calls))
    /\ Len(out) = Len(results)
    /\ \A i \in 1..Len(out) :
          IF results[i].exc = "none"
          THEN out[i] = PrintResponse(providers[i].name, results[i].v.answer)
          ELSE out[i] = PrintError(providers[i].name, results[i].exc)

\* a run of three providers in which the first and the last fail
C3_Witness ==
    /\ pc = "gather_returned"
    /\ Len(providers) = 3
    /\ Len(calls) = 3
    /\ results[1].exc = "RuntimeError"
    /\ results[2].exc = "none"
    /\ results[3].exc = "ValueError"

\* C4: no two provider backend calls are in flight at the same time: while the
\* collector awaits the call of one provider, the backend call of every earlier
\* provider has ended, an abandoned (timed out) one included.
C4_OneBackendCallInFlight ==
    pc = "gather_await" => inflight \subseteq {idx}

-----------------------------------------------------------------------------
(* Properties of the anonymized judge *)

Present(i) == responses[i].val.some

PresentCount == Cardinality({i \in 1..Len(responses) : Present(i)})

\* the key of the k-th entry of the collected responses that holds a Response
KthPresentKey(k) ==
    responses[CHOOSE i \in 1..Len(responses) :
                 Present(i) /\ Cardinality({j \in 1..i : Present(j)}) = k].key

HasLine(kind) == \E i \in 1..Len(out) : out[i].kind = kind

HeaderAt == CHOOSE h \in 1..Len(out) : out[h].kind = "ranking_header"

RankingKinds == {"ranking_header", "rank", "invalid", "unknown"}

\* C5: with a non-blank api key and model, judge_responses_with_openai always
\* terminates without raising, whatever the collected responses and whatever
\* the judge replies: no exception escapes, every position but the return has
\* a next step, and the re-map loop runs at most once per entry.
C5_JudgeNeverRaises ==
    (Strip(api_key) # <<>> /\ Strip(model) # <<>>) =>
        /\ raised = "none"
        /\ pc \in {"judge_start", "judge_anonymize", "judge_ask", "judge_parse",
                   "judge_rank", "judge_returned"}
        /\ pc = "judge_rank" => rank \in 1..(Len(order) + 1)
        /\ Len(out) <= Len(responses) + 3 + Len(order)

\* the judge replied with valid JSON that is not an object: data.get raises
C5_Witness ==
    /\ pc = "judge_returned"
    /\ Strip(api_key) # <<>>
    /\ raw.some
    /\ raw.v # <<>>
    /\ JsonLoads(raw.v).exc = "none"
    /\ JsonLoads(raw.v).v.t = "list"
    /\ HasLine("parse_failed")

\* C6: with fewer than 2 present responses the judge reports "Not enough valid
\* responses", never calls the judge model and prints no ranking header and no
\* rank line; the providers without a response are reported as skipped first.
C6_TooFewCompetitorsNoJudging ==
    PresentCount < 2 =>
        /\ asked = 0
        /\ \A i \in 1..Len(out) : out[i].kind \notin RankingKinds \cup {"asking"}
        /\ pc # "judge_start" =>
              /\ pc = "judge_returned"
              /\ out[Len(out)].kind = "not_enough"
              /\ \A i \in 1..Len(responses) :
                    ~Present(i) =>
                        \E j \in 1..(Len(out) - 1) :
                            out[j] = Line("skipped", 0, responses[i].key, 0, <<>>)

\* three collected responses of which one is present
C6_Witness ==
    /\ pc = "judge_returned"
    /\ Len(responses) = 3
    /\ PresentCount = 1
    /\ HasLine("skipped")

\* C7: the competitor numbering is a bijection between 1..N and the provider
\* keys with a present response, in the order of the collected responses; a
\* provider without a response has no number; once built, the numbering does
\* not change for the rest of the invocation.
C7_NumberingIsBijection ==
    (numbered_to_provider # <<>> \/ pc \in {"judge_ask", "judge_parse", "judge_rank"}) =>
        /\ Len(numbered_to_provider) = PresentCount
        /\ DictKeys(numbered_to_provider) = 1..PresentCount
        /\ \A k \in 1..PresentCount :
              DictGet(numbered_to_provider, k) = KthPresentKey(k)
        /\ \A i \in 1..Len(responses) :
              ~Present(i) =>
                  \A e \in 1..Len(numbered_to_provider) :
                      numbered_to_provider[e].val # responses[i].key

\* C7: the numbering is that bijection in every state, and no step after its
\* construction (prompt, ask, parse, re-map) changes it.
C7_CompetitorNumbering ==
    /\ []C7_NumberingIsBijection
    /\ [][numbered_to_provider # <<>> => numbered_to_provider' = numbered_to_provider]_vars

\* the middle one of three providers failed and the re-map loop is running
C7_Witness ==
    /\ pc = "judge_rank"
    /\ rank = 2
    /\ Len(responses) = 3
    /\ ~Present(2)
    /\ Len(numbered_to_provider) = 2

\* the entry is the decimal number k, as a JSON string or a JSON integer
IsNumber(item, k) == item = JStr(IntChars(k)) \/ item = JInt(k)

\* C8: each entry of the judge's results list that is the decimal number k of
\* an existing competitor prints a rank line naming the provider numbered k
\* (the k-th provider with a present response), and the lines follow the
\* order of the judge's list.
C8_RankLinesNameNumberedProvider ==
    HasLine("ranking_header") =>
        /\ Len(out) = HeaderAt + rank - 1
        /\ \A r \in 1..(rank - 1) :
              /\ out[HeaderAt + r].rank = r
              /\ \A k \in 1..PresentCount :
                    IsNumber(order[r], k) =>
                        out[HeaderAt + r] = Line("rank", r, KthPresentKey(k), k, <<>>)
        /\ pc = "judge_returned" => rank = Len(order) + 1

\* openai present, anthropic absent, groq present, reply {"results": ["2", "1"]}
C8_Witness ==
    /\ pc = "judge_returned"
    /\ Len(responses) = 3
    /\ responses[1].key = openai /\ Present(1)
    /\ responses[2].key = anthropic /\ ~Present(2)
    /\ responses[3].key = groq /\ Present(3)
    /\ order = <<JStr(<<"2">>), JStr(<<"1">>)>>
    /\ \E j \in 1..Len(out) : out[j] = Line("skipped", 0, anthropic, 0, <<>>)
    /\ out[Len(out) - 1] = Line("rank", 1, groq, 2, <<>>)
    /\ out[Len(out)] = Line("rank", 2, openai, 1, <<>>)

\* the number is the position, in the collected responses, of a provider
\* that was filtered out for having no response
FilteredOutPosition(n) == n \in 1..Len(responses) /\ ~Present(n)

\* C9 as stated: an entry that cannot be read as an integer is reported as an
\* invalid identifier; an integer entry with no corresponding competitor (0,
\* negative, greater than N, or the number a filtered-out provider would have
\* had) is reported as an unknown competitor; both are skipped and every later
\* valid entry still prints its rank line for the correct provider.
C9_SkippedEntriesAsStated ==
    HasLine("ranking_header") =>
        /\ \A r \in 1..(rank - 1) :
              LET item == order[r]
                  n == PyInt(PyStr(item))
                  line == out[HeaderAt + r]
              IN  IF n.exc # "none"
                  THEN line = Line("invalid", r, <<>>, 0, PyRepr(item))
                  ELSE IF n.v \notin 1..PresentCount \/ FilteredOutPosition(n.v)
                  THEN line = Line("unknown", r, <<>>, n.v, <<>>)
                  ELSE line = Line("rank", r, KthPresentKey(n.v), n.v, <<>>)
        /\ pc = "judge_returned" => rank = Len(order) + 1

\* C9 (amended): an entry that cannot be read as an integer is reported as an
\* invalid identifier; an integer entry outside 1..N is reported as an unknown
\* competitor; both are skipped and every later valid entry still prints its
\* rank line for the correct provider.  A filtered-out provider has no number:
\* its position in the collected responses, when within 1..N, is the number
\* of another competitor.
C9_SkippedEntriesReported ==
    HasLine("ranking_header") =>
        /\ \A r \in 1..(rank - 1) :
              LET item == order[r]
                  n == PyInt(PyStr(item))
                  line == out[HeaderAt + r]
              IN  IF n.exc # "none"
                  THEN line = Line("invalid", r, <<>>, 0, PyRepr(item))
                  ELSE IF n.v \notin 1..PresentCount
                  THEN line = Line("unknown", r, <<>>, n.v, <<>>)
                  ELSE line = Line("rank", r, KthPresentKey(n.v), n.v, <<>>)
        /\ pc = "judge_returned" => rank = Len(order) + 1

\* reply {"results": ["x", "0", "2"]}: invalid, unknown, then a valid entry
C9_Witness ==
    /\ pc = "judge_returned"
    /\ order = <<JStr(<<"x">>), JStr(<<"0">>), JStr(<<"2">>)>>
    /\ out[Len(out) - 2].kind = "invalid"
    /\ out[Len(out) - 1].kind = "unknown"
    /\ out[Len(out)] = Line("rank", 3, KthPresentKey(2), 2, <<>>)

\* the text is a JSON object whose `results` member is a list
WellShaped(text) ==
    LET data == JsonLoads(text) IN
    /\ data.exc = "none"
    /\ data.v.t = "dict"
    /\ DictHas(data.v.items, ResultsKey)
    /\ DictGet(data.v.items, ResultsKey).t = "list"

\* C10: the ranking header and the rank lines are printed only after a present
\* reply parsed as a JSON object with a `results` list; an absent or empty
\* reply gives the "no response" report and stops; a reply that is no valid
\* JSON, no object, or has no `results` list gives the parse-failure report
\* with the raw text, and no ranking line.
C10_RankingOnlyAfterParsedResults ==
    /\ (\E i \in 1..Len(out) : out[i].kind \in RankingKinds) =>
          raw.some /\ raw.v # <<>> /\ WellShaped(raw.v)
    /\ (pc = "judge_returned" /\ asked = 1 /\ (~raw.some \/ raw.v = <<>>)) =>
          /\ out[Len(out)].kind = "no_response"
          /\ \A i \in 1..Len(out) : out[i].kind \notin RankingKinds
    /\ (pc = "judge_returned" /\ raw.some /\ raw.v # <<>> /\ ~WellShaped(raw.v)) =>
          /\ out[Len(out) - 1].kind = "parse_failed"
          /\ out[Len(out)] = Line("raw_output", 0, <<>>, 0, raw.v)
          /\ \A i \in 1..Len(out) : out[i].kind \notin RankingKinds

\* the reply is a JSON object whose `results` is a string
C10_Witness ==
    /\ pc = "judge_returned"
    /\ raw.some
    /\ JsonLoads(raw.v).exc = "none"
    /\ JsonLoads(raw.v).v.t = "dict"
    /\ DictHas(JsonLoads(raw.v).v.items, ResultsKey)
    /\ DictGet(JsonLoads(raw.v).v.items, ResultsKey).t = "str"
    /\ HasLine("raw_output")

-----------------------------------------------------------------------------
(* The ranking as printed *)

\* the parsed competitor number of the entry at position r of the judge's list
EntryNumber(r) == PyInt(PyStr(order[r]))

\* C19 as stated: for every reply that parses to a results list, no provider
\* appears in more than one emitted rank line.
C19_NoProviderRankedTwice ==
    HasLine("ranking_header") =>
        \A r1, r2 \in 1..(rank - 1) :
            (/\ r1 < r2
             /\ out[HeaderAt + r1].kind = "rank"
             /\ out[HeaderAt + r2].kind = "rank")
            => out[HeaderAt + r1].name # out[HeaderAt + r2].name

\* C19 (amended): the judge's list is printed entry by entry and is not
\* checked for repetitions: a provider appears in more than one rank line
\* only when the list names its competitor number more than once, and then
\* once for each occurrence; a list whose numbers are all different gives no
\* provider two rank lines.
C19_RankedTwiceOnlyWhenNumberRepeated ==
    HasLine("ranking_header") =>
        \A r1, r2 \in 1..(rank - 1) :
            (/\ r1 < r2
             /\ out[HeaderAt + r1].kind = "rank"
             /\ out[HeaderAt + r2].kind = "rank")
            => (out[HeaderAt + r1].name = out[HeaderAt + r2].name
                   <=> EntryNumber(r1).v = EntryNumber(r2).v)

\* reply {"results": ["1", "1", "2"]}: the first competitor is printed at
\* rank 1 and again at rank 2
C19_Witness ==
    /\ pc = "judge_returned"
    /\ order = <<JStr(<<"1">>), JStr(<<"1">>), JStr(<<"2">>)>>
    /\ out[Len(out) - 2] = Line("rank", 1, KthPresentKey(1), 1, <<>>)
    /\ out[Len(out) - 1] = Line("rank", 2, KthPresentKey(1), 1, <<>>)
    /\ out[Len(out)] = Line("rank", 3, KthPresentKey(2), 2, <<>>)

\* the lines printed for the judge's list so far, of the given kinds
EntryLines(kinds) == {r \in 1..(rank - 1) : out[HeaderAt + r].kind \in kinds}

\* C20: the rank number printed is the 1-based position of the entry in the
\* judge's list, skipped entries included: each entry of the list prints
\* exactly one line, a rank line or an invalid/unknown report, carrying its
\* position, so that on return the rank lines and the reports together are as
\* many as the list is long and a valid entry at position r is printed with
\* rank r.
C20_RankIsPositionInList ==
    HasLine("ranking_header") =>
        /\ Len(out) - HeaderAt = rank - 1
        /\ \A r \in 1..(rank - 1) :
              /\ out[HeaderAt + r].kind \in {"rank", "invalid", "unknown"}
              /\ out[HeaderAt + r].rank = r
              /\ (EntryNumber(r).exc = "none" /\ EntryNumber(r).v \in 1..PresentCount)
                    => out[HeaderAt + r].kind = "rank"
        /\ pc = "judge_returned" =>
              Cardinality(EntryLines({"rank"}))
                  + Cardinality(EntryLines({"invalid", "unknown"})) = Len(order)

\* reply {"results": ["0", "2"]}: the unknown entry takes position 1 and the
\* valid entry after it is printed with rank 2
C20_Witness ==
    /\ pc = "judge_returned"
    /\ order = <<JStr(<<"0">>), JStr(<<"2">>)>>
    /\ Len(out) = HeaderAt + 2
    /\ out[HeaderAt + 1].kind = "unknown"
    /\ out[HeaderAt + 2].kind = "rank"
    /\ out[HeaderAt + 2].rank = 2

-----------------------------------------------------------------------------
(* What the judge is shown *)

\* the answers of the present providers, in the order of the mapping
OrderedAnswers(resp) ==
    [i \in 1..Len(Competitors(resp)) |-> Competitors(resp)[i].val.v.answer]

\* C11: the message list sent to the judge depends only on the question text
\* and on the ordered answers of the present providers, never on the provider
\* keys or names: two invocations with the same question text and the same
\* answers in the same order send identical messages, whatever the providers
\* are called and wherever the absent ones stand.
C11_MessagesIndependentOfProviderNames ==
    (/\ pc = "pair_done"
     /\ question.text = other.question.text
     /\ OrderedAnswers(responses) = OrderedAnswers(other.responses))
    => messages = other.messages

\* {openai: A, groq: B} and {groq: A, gemini: absent, openai: B}: other keys,
\* the answers A, B in the same order, and a message list was sent
C11_Witness ==
    /\ pc = "pair_done"
    /\ Len(responses) = 2
    /\ responses[1].key = openai /\ responses[2].key = groq
    /\ Len(other.responses) = 3
    /\ other.responses[1].key = groq
    /\ other.responses[2].key = gemini /\ ~other.responses[2].val.some
    /\ other.responses[3].key = openai
    /\ other.question.id # question.id
    /\ OrderedAnswers(responses) = <<<<"A">>, <<"B">>>>
    /\ OrderedAnswers(other.responses) = <<<<"A">>, <<"B">>>>
    /\ messages # <<>>
    /\ messages = other.messages

-----------------------------------------------------------------------------
(* The helper's results *)

ValidAskArguments == AskCheck(messages, model) = "none"

AskEnded == pc \in {"ask_returned", "ask_raised"}

\* C12: with valid arguments OpenAIClientHelper.ask never lets a failure
\* escape: nothing is raised, and when the backend call times out or raises
\* an error the call returns None, in text mode and in raw mode alike.
C12_AskAbsorbsBackendFailures ==
    ValidAskArguments =>
        /\ raised = "none"
        /\ pc # "ask_raised"
        /\ (AskEnded /\ backend.kind \in {"timeout", "sdk_error"}) =>
              pc = "ask_returned" /\ ~raw.some

\* raw mode, the wait timed out, None was returned
C12_Witness ==
    /\ pc = "ask_returned"
    /\ return_raw
    /\ backend.kind = "timeout"
    /\ raised = "none"
    /\ ~raw.some

\* C13: with an empty message list or a blank (empty or whitespace-only)
\* model, ask raises at once: the error is not turned into a None result and
\* no backend call is started before it.
C13_BadArgumentsRaiseBeforeBackend ==
    (Len(messages) = 0 \/ Strip(model) = <<>>) =>
        /\ calls = <<>>
        /\ inflight = {}
        /\ backend = NotCalled
        /\ ~raw.some
        /\ pc \in {"ask_start", "ask_raised"}
        /\ pc = "ask_raised" => raised = "ValueError"

\* a whitespace-only model with a non-empty message list
C13_Witness ==
    /\ pc = "ask_raised"
    /\ raised = "ValueError"
    /\ model = <<" ">>
    /\ Len(messages) = 2
    /\ calls = <<>>

\* text has no whitespace at either end
Trimmed(text) == text # <<>> => (Head(text) \notin Whitespace /\ text[Len(text)] \notin Whitespace)

\* C18: in text mode ask returns either None or a non-empty string without
\* surrounding whitespace: a completion with no choices, no message or no
\* content, or with content that is empty (also when empty only once
\* trimmed), gives None, so a present text result is never the empty string.
C18_TextResultAbsentOrNonEmpty ==
    (pc = "ask_returned" /\ ~return_raw) =>
        /\ raw.some => (raw.v # <<>> /\ Trimmed(raw.v))
        /\ (backend.kind = "completion"
               /\ (backend.shape # "content" \/ Strip(backend.content) = <<>>))
              => ~raw.some

-----------------------------------------------------------------------------
(* The adapters' results *)

AdapterEnded == pc \in {"adapter_returned", "adapter_raised"}

\* the backend call gave the adapter nothing to answer with
NoContent ==
    IF backend.kind = "message"
    THEN backend.shape # "blocks" \/ AnthropicParts(backend.content) = <<>>
    ELSE backend.kind = "completion"
            /\ (backend.shape # "content" \/ backend.content = <<>>)

\* C14: for every provider adapter (OpenAI, Groq, Ollama, Anthropic),
\* generate_answer either returns a Response whose question is the Question
\* passed in, whose provider is the adapter's name and whose answer is
\* non-blank, or raises; it raises whenever the backend returns no content,
\* times out or errors, and never returns None or a blank-answer Response.
C14_AdapterReturnsAnswerOrRaises ==
    AdapterEnded =>
        LET res == results[Len(results)] IN
        /\ pc = "adapter_returned" <=> res.exc = "none"
        /\ res.exc = "none" =>
              /\ res.v.question = question
              /\ res.v.provider = providers[idx].name
              /\ Strip(res.v.answer) # <<>>
        /\ (NoContent \/ backend.kind \in {"timeout", "sdk_error"}) => res.exc # "none"

-----------------------------------------------------------------------------
(* Validation at construction *)

Blank(text) == Strip(text) = <<>>

\* C15: constructing a Question with blank text always fails; constructing a
\* Response with a blank provider or a blank answer always fails;
\* constructing a provider with a blank name or a blank model always fails;
\* and a Response that was constructed carries, unchanged, the Question it
\* was given.
C15_BlankFieldsRejected ==
    \A i \in 1..Len(built) :
        LET b == built[i] IN
        /\ (b.what = "Question" /\ Blank(b.a)) => b.res.exc = "ValueError"
        /\ (b.what = "Response" /\ (Blank(b.a) \/ Blank(b.b))) => b.res.exc = "ValueError"
        /\ (b.what = "Provider" /\ (Blank(b.a) \/ Blank(b.b))) => b.res.exc = "ValueError"
        /\ (b.what = "Response" /\ b.res.exc = "none") =>
              /\ b.res.v.question = b.q
              /\ b.q \in {built[j].res.v : j \in {k \in 1..(i - 1) : built[k].what = "Question"}}

\* a Question is made, then a Response for it with a whitespace-only answer
\* is refused
C15_Witness ==
    /\ Len(built) = 2
    /\ built[1].what = "Question" /\ built[1].res.exc = "none"
    /\ built[2].what = "Response"
    /\ built[2].q = built[1].res.v
    /\ built[2].a = <<"A">>
    /\ built[2].b = <<" ">>
    /\ built[2].res.exc = "ValueError"

-----------------------------------------------------------------------------
(* The run as a whole *)

\* a required credential is unset or set to the empty string
MissingCredential ==
    \E i \in 1..Len(RequiredEnv) :
        ~env[RequiredEnv[i]].some \/ env[RequiredEnv[i]].v = <<>>

\* a credential handed to OpenAIClientHelper is whitespace only
BlankCredential ==
    \E name \in {"OPENAI_API_KEY", "GROQ_API_KEY"} :
        env[name].some /\ env[name].v # <<>> /\ Strip(env[name].v) = <<>>

\* C16: when any required credential (OPENAI_API_KEY, GROQ_API_KEY,
\* GOOGLE_API_KEY, ANTHROPIC_API_KEY) is missing or empty, main aborts with
\* an error before any network activity: no question-generation call, no
\* provider call and no judge call is ever issued, and no backend call is
\* ever started.
C16_MissingCredentialAbortsBeforeNetwork ==
    MissingCredential =>
        /\ pc \in {"main_start", "main_raised"}
        /\ pc = "main_raised" => raised = "ValueError"
        /\ generated = <<>>
        /\ calls = <<>>
        /\ asked = 0
        /\ inflight = {}
        /\ backend = NotCalled

\* only ANTHROPIC_API_KEY, the last one read, is unset
C16_Witness ==
    /\ pc = "main_raised"
    /\ raised = "ValueError"
    /\ env["OPENAI_API_KEY"] = Some(<<"k">>)
    /\ env["GROQ_API_KEY"] = Some(<<"k">>)
    /\ env["GOOGLE_API_KEY"] = Some(<<"k">>)
    /\ ~env["ANTHROPIC_API_KEY"].some
    /\ generated = <<>>

\* C17: main raises only on a configuration error or an uncaught contract
\* error: no environmental or backend failure of a remote call (question
\* generation, provider answers, judge) makes main terminate with an error.
C17_MainRaisesOnlyOnConfigOrContractError ==
    pc = "main_raised" =>
        /\ MissingCredential \/ BlankCredential
        /\ raised = "ValueError"

====
